---------------------------- MODULE Spec2Model ----------------------------
(***************************************************************************)
(* A model of exploratory_notebooks/segmented_graph_construction.py: the   *)
(* hit selector, the sector partitioner, the edge constructor with its     *)
(* truth labels, the per-particle segment counts and the graph summary.    *)
(*                                                                         *)
(* Numbers.  The code computes in floating point; the model computes in    *)
(* exact integer arithmetic on a grid:                                     *)
(*   - lengths (r, z, x, y) are whole millimetres;                         *)
(*   - angles (phi) are whole multiples of pi/PiUnits;                     *)
(*   - a pseudorapidity eta = asinh(z/r) is carried as the fraction        *)
(*     <<z, r>> = sinh(eta), a strictly increasing function of eta, and    *)
(*     eta boundaries are integers on the same sinh scale;                 *)
(*   - a ratio a/b is compared by cross multiplication, and a division by  *)
(*     zero is the IEEE result (inf or NaN), for which every "<" is false. *)
(* A pandas table is a sequence of records (its rows, in order); the row   *)
(* label of a row is its field "index".                                    *)
(***************************************************************************)
EXTENDS Integers, Sequences, FiniteSets, TLC

VARIABLES
    pc,                   \* the step the computation is at
    args,                 \* the arguments of the call (cuts, boundaries, flags)
    hits,                 \* the hits table being processed
    hits_sectors,         \* split_detector_sectors: (eta_index, phi_index) -> hits
    sector_info,          \* split_detector_sectors: (eta_index, phi_index) -> ranges
    particle_properties,  \* process_event: the particle truth record
    sectors,              \* process_event: the list of graph records
    graph,                \* construct_graph: the graph record returned
    summary_stats,        \* graph_summary: the summary returned
    event,                \* select_hits: the raw hits, truth and particles tables
    selected              \* select_hits: what each successive call returned

vars == <<pc, args, hits, hits_sectors, sector_info, particle_properties,
          sectors, graph, summary_stats, event, selected>>

\* The value of a variable that the computation has not assigned yet.
None == [none |-> TRUE]

---------------------------------------------------------------------------
(* Bounds of the model.                                                    *)

MaxSecHits == 2
MaxGraphHits == 4
MaxEventHits == 5
MaxRawHits == 6

---------------------------------------------------------------------------
(* Generic helpers.                                                        *)

Abs(n) == IF n < 0 THEN -n ELSE n

Range(s) == {s[k] : k \in DOMAIN s}

\* The sequences over S of length at most n.
SeqsUpTo(S, n) == UNION {[1..k -> S] : k \in 0..n}

\* A freshly built table: row k gets the row label k-1 (a RangeIndex) and
\* the hit id k.
Table(shapes) ==
    [k \in DOMAIN shapes |-> [index |-> k - 1, hit_id |-> k] @@ shapes[k]]

\* The fields of a hit after the hit selector, but for its label and id.
Shape(r, phi, z, layer, module_id, particle_id) ==
    [r |-> r, phi |-> phi, z |-> z, layer |-> layer,
     module_id |-> module_id, particle_id |-> particle_id, evtid |-> 1000]

---------------------------------------------------------------------------
(* Geometry utilities.                                                     *)

\* np.pi, in angle units.
PiUnits == 8

\* calc_dphi(phi1, phi2): phi2 - phi1, brought back by one turn when it is
\* above pi, then when it is below -pi.
calc_dphi(phi1, phi2) ==
    LET d0 == phi2 - phi1
        d1 == IF d0 > PiUnits THEN d0 - 2 * PiUnits ELSE d0
    IN  IF d1 < -PiUnits THEN d1 + 2 * PiUnits ELSE d1

\* calc_eta(r, z) = -log(tan(arctan2(r, z)/2)) = asinh(z/r), for r > 0:
\* carried as the fraction z/r.
calc_eta(r, z) == <<z, r>>

\* eta > b and eta < b for a boundary b on the sinh scale (r > 0).
EtaGreater(eta, b) == eta[1] > b * eta[2]
EtaLess(eta, b) == eta[1] < b * eta[2]

---------------------------------------------------------------------------
(* split_detector_sectors.                                                 *)

\* A phi selection that keeps the lower boundary (a mutant of PhiInside).
PhiInsideClosedLow(h, phi_min, phi_max) == h.phi >= phi_min /\ h.phi < phi_max

\* hits[(hits.phi > phi_min) & (hits.phi < phi_max)]
PhiInside(h, phi_min, phi_max) == h.phi > phi_min /\ h.phi < phi_max

\* An eta selection that keeps the upper boundary (a mutant of EtaInside).
EtaInsideClosedHigh(h, eta_min, eta_max) ==
    LET eta == calc_eta(h.r, h.z)
    IN  EtaGreater(eta, eta_min) /\ ~EtaGreater(eta, eta_max)

\* phi_hits[(eta > eta_min) & (eta < eta_max)], eta = calc_eta(r, z)
EtaInside(h, eta_min, eta_max) ==
    LET eta == calc_eta(h.r, h.z)
    IN  EtaGreater(eta, eta_min) /\ EtaLess(eta, eta_max)

\* The sector keys (j, i) = (eta index, phi index), 0-based as in the code.
SectorKeys(phi_edges, eta_edges) ==
    {<<j, i>> : j \in 0..(Len(eta_edges) - 2), i \in 0..(Len(phi_edges) - 2)}

\* The hits of sector (j, i): selected on phi, recentred on the middle of
\* the phi interval, tagged phi_sector, selected on eta, tagged eta_sector.
\* (Boundaries are even, so the midpoint is on the grid.)
SectorHits(h_all, phi_edges, eta_edges, j, i) ==
    LET phi_min == phi_edges[i + 1]
        phi_max == phi_edges[i + 2]
        eta_min == eta_edges[j + 1]
        eta_max == eta_edges[j + 2]
        InPhi(h) == PhiInside(h, phi_min, phi_max)
        phi_sel == SelectSeq(h_all, InPhi)
        phi_hits == [k \in DOMAIN phi_sel |->
                       [phi_sector |-> i] @@
                       [phi_sel[k] EXCEPT !.phi = @ - ((phi_min + phi_max) \div 2)]]
        InEta(h) == EtaInside(h, eta_min, eta_max)
        sec_sel == SelectSeq(phi_hits, InEta)
    IN  [k \in DOMAIN sec_sel |-> [eta_sector |-> j] @@ sec_sel[k]]

split_detector_sectors(h_all, phi_edges, eta_edges) ==
    [hits_sectors |->
        [s \in SectorKeys(phi_edges, eta_edges) |->
            SectorHits(h_all, phi_edges, eta_edges, s[1], s[2])],
     sector_info |->
        [s \in SectorKeys(phi_edges, eta_edges) |->
            [eta_range |-> <<eta_edges[s[1] + 1], eta_edges[s[1] + 2]>>,
             phi_range |-> <<phi_edges[s[2] + 1], phi_edges[s[2] + 2]>>]]]

---------------------------------------------------------------------------
(* The sector partitioner on its own: any hits, any ascending boundaries.  *)

\* Hits for the partitioner: on, inside and outside the boundaries below.
SecShapes ==
    {Shape(32, phi, z, 0, 0, 0) :
        phi \in {-8, -3, 0, 5}, z \in {-2368, -100, 0, 100, 3000}}

\* Ascending boundary arrays (phi in angle units, eta on the sinh scale);
\* the first two of each are np.linspace over process_event's ranges.
PhiEdgeArrays == {<<-8, 8>>, <<-8, 0, 8>>, <<-4, 0, 0, 6>>}
EtaEdgeArrays == {<<-74, 74>>, <<-74, 0, 74>>, <<-74, -2, 4>>}

SecInit ==
    /\ pc = "split"
    /\ \E sh \in SeqsUpTo(SecShapes, MaxSecHits) : hits = Table(sh)
    /\ \E pe \in PhiEdgeArrays, ee \in EtaEdgeArrays :
          args = [phi_edges |-> pe, eta_edges |-> ee]
    /\ hits_sectors = None /\ sector_info = None
    /\ particle_properties = None /\ sectors = None /\ graph = None
    /\ summary_stats = None /\ event = None /\ selected = None

SplitDetectorSectors ==
    /\ pc = "split"
    /\ LET res == split_detector_sectors(hits, args.phi_edges, args.eta_edges)
       IN  /\ hits_sectors' = res.hits_sectors
           /\ sector_info' = res.sector_info
    /\ pc' = "split_done"
    /\ UNCHANGED <<args, hits, particle_properties, sectors, graph,
                   summary_stats, event, selected>>

SecNext == SplitDetectorSectors

SpecSec == SecInit /\ [][SecNext]_vars

---------------------------------------------------------------------------
(* select_edges.                                                           *)

\* The radii of barrel layers 0 -> 1 and the barrel half length, in whole
\* millimetres (71.56298..., 115.37811..., 490.975 in the code).
BarrelRadius0 == 72
BarrelRadius1 == 115
BarrelHalfLength == 491

\* hits1[keys].merge(hits2[keys], on='evtid'): every pair of a row of hits1
\* and a row of hits2 of the same event, in the order of hits1, then hits2.
HitPairs(hits1, hits2) ==
    LET n2 == Len(hits2)
        all == [k \in 1..(Len(hits1) * n2) |->
                  <<hits1[((k - 1) \div n2) + 1], hits2[((k - 1) % n2) + 1]>>]
        SameEvent(pr) == pr[1].evtid = pr[2].evtid
    IN  SelectSeq(all, SameEvent)

PairDphi(pr) == calc_dphi(pr[1].phi, pr[2].phi)
PairDz(pr) == pr[2].z - pr[1].z
PairDr(pr) == pr[2].r - pr[1].r

\* A slope cut that lets the limit itself pass (a mutant of PhiSlopeCut).
PhiSlopeCutInclusive(pr, phi_slope_max) ==
    /\ PairDr(pr) # 0
    /\ Abs(PairDphi(pr)) * phi_slope_max.den <= phi_slope_max.num * Abs(PairDr(pr))

\* phi_slope.abs() < phi_slope_max with phi_slope = dphi / dr.  For dr = 0
\* the quotient is inf or NaN and the comparison is false.
\* phi_slope_max is the fraction num/den, den > 0.
PhiSlopeCut(pr, phi_slope_max) ==
    /\ PairDr(pr) # 0
    /\ Abs(PairDphi(pr)) * phi_slope_max.den < phi_slope_max.num * Abs(PairDr(pr))

\* z0.abs() < z0_max with z0 = z_1 - r_1 * dz / dr (false for dr = 0).
Z0Cut(pr, z0_max) ==
    /\ PairDr(pr) # 0
    /\ Abs(pr[1].z * PairDr(pr) - pr[1].r * PairDz(pr)) < z0_max * Abs(PairDr(pr))

\* z_coord = radius * dz / dr + z0 lies strictly inside the barrel length.
CrossesBarrelAt(pr, radius) ==
    /\ PairDr(pr) # 0
    /\ Abs(pr[1].z * PairDr(pr) + (radius - pr[1].r) * PairDz(pr))
          < BarrelHalfLength * Abs(PairDr(pr))

\* intersected_layer: dr.abs() < -1 (never), unless the pair goes from
\* barrel layer 0 or 1 to the innermost layer of an endcap.
intersected_layer(pr, layer1, layer2) ==
    IF layer1 = 1 /\ layer2 \in {11, 4} THEN CrossesBarrelAt(pr, BarrelRadius1)
    ELSE IF layer1 = 0 /\ layer2 \in {11, 4} THEN CrossesBarrelAt(pr, BarrelRadius0)
    ELSE Abs(PairDr(pr)) < -1

\* A module map: the set of the pairs of module ids it flags as adjacent.
ModuleMap(adjacent) == [none |-> FALSE, adjacent |-> adjacent]

\* in_module_map: True without a module map, else module_map[mid1, mid2].
in_module_map(pr, module_map) ==
    IF module_map.none THEN TRUE
    ELSE <<pr[1].module_id, pr[2].module_id>> \in module_map.adjacent

good_edge_mask(pr, layer1, layer2, phi_slope_max, z0_max, module_map) ==
    /\ PhiSlopeCut(pr, phi_slope_max)
    /\ Z0Cut(pr, z0_max)
    /\ intersected_layer(pr, layer1, layer2) = FALSE
    /\ in_module_map(pr, module_map)

\* The selected pairs with the row labels of their hits and their geometric
\* features (dR = sqrt(deta^2 + dphi^2) is a feature only and is left out).
select_edges(hits1, hits2, layer1, layer2, phi_slope_max, z0_max, module_map) ==
    LET Good(pr) == good_edge_mask(pr, layer1, layer2,
                                   phi_slope_max, z0_max, module_map)
        kept == SelectSeq(HitPairs(hits1, hits2), Good)
    IN  [k \in DOMAIN kept |->
            [index_1 |-> kept[k][1].index, index_2 |-> kept[k][2].index,
             dr |-> PairDr(kept[k]), dphi |-> PairDphi(kept[k]),
             dz |-> PairDz(kept[k])]]

---------------------------------------------------------------------------
(* check_truth_labels.                                                     *)

\* Layer indices for barrel-to-endcap edges.
barrel_to_endcaps ==
    {<<0, 4>>, <<1, 4>>, <<2, 4>>, <<0, 11>>, <<1, 11>>, <<2, 11>>}

\* The row of table h with row label idx (h.loc[idx]).
Loc(h, idx) == CHOOSE row \in Range(h) : row.index = idx

\* The transition layer pairs among the true edges of particle p.
transition_edges(h, edges, y, particle_ids, p) ==
    {<<Loc(h, edges[k].index_1).layer, Loc(h, edges[k].index_2).layer>> :
        k \in {e \in DOMAIN edges : particle_ids[e] = p /\ y[e] = 1}}
    \cap barrel_to_endcaps

\* A count that takes one transition edge for an extra one (a mutant).
CheckTruthLabelsAnyTransition(h, edges, y, particle_ids) ==
    Cardinality({p \in {row.particle_id : row \in Range(h)} :
        Cardinality(transition_edges(h, edges, y, particle_ids, p)) > 0})

\* n_incorrect: the particles among the hits with more than one transition
\* layer pair among their true edges.
check_truth_labels(h, edges, y, particle_ids) ==
    Cardinality({p \in {row.particle_id : row \in Range(h)} :
        Cardinality(transition_edges(h, edges, y, particle_ids, p)) > 1})

---------------------------------------------------------------------------
(* construct_graph.                                                        *)

\* hits.groupby('layer').get_group(layer); an empty group is a KeyError.
LayerGroup(h, layer) ==
    LET InLayer(row) == row.layer = layer
    IN  SelectSeq(h, InLayer)

\* The edges of the first n layer pairs, concatenated in order; a layer pair
\* with an empty layer is skipped.
RECURSIVE EdgesUpTo(_, _, _, _, _, _)
EdgesUpTo(h, layer_pairs, phi_slope_max, z0_max, module_maps, n) ==
    IF n = 0 THEN <<>>
    ELSE LET layer1 == layer_pairs[n][1]
             layer2 == layer_pairs[n][2]
             module_map == IF module_maps.none THEN None
                           ELSE module_maps.maps[layer_pairs[n]]
             hits1 == LayerGroup(h, layer1)
             hits2 == LayerGroup(h, layer2)
             before == EdgesUpTo(h, layer_pairs, phi_slope_max, z0_max,
                                 module_maps, n - 1)
         IN  IF hits1 = <<>> \/ hits2 = <<>> THEN before
             ELSE before \o select_edges(hits1, hits2, layer1, layer2,
                                         phi_slope_max, z0_max, module_map)

\* Whether any layer pair has both its layers populated (len(edges) > 0: the
\* list holds one frame per such pair).
AnyPairPopulated(h, layer_pairs) ==
    \E n \in DOMAIN layer_pairs :
        /\ LayerGroup(h, layer_pairs[n][1]) # <<>>
        /\ LayerGroup(h, layer_pairs[n][2]) # <<>>

\* node_idx: the position (from 0) of the row with label idx.
NodeIdx(h, idx) == (CHOOSE k \in DOMAIN h : h[k].index = idx) - 1

\* A label that forgets that noise makes no true edge (a mutant).
EdgeLabelSamePid(pid1, pid2) == IF pid1 = pid2 THEN 1 ELSE 0

\* y = (pid1 == pid2) & (pid1 > 0) & (pid2 > 0)
EdgeLabel(pid1, pid2) ==
    IF pid1 = pid2 /\ pid1 > 0 /\ pid2 > 0 THEN 1 ELSE 0

\* A node matrix without the noise hits (a mutant of NodeMatrix).
NodeMatrixNoNoise(h) ==
    LET NotNoise(row) == row.particle_id # 0
        kept == SelectSeq(h, NotNoise)
    IN  [k \in DOMAIN kept |-> <<kept[k].r, kept[k].phi, kept[k].z>>]

\* x: one row per hit, the features r, phi, z (the scale, a positive
\* constant per column, is left out).
NodeMatrix(h) == [k \in DOMAIN h |-> <<h[k].r, h[k].phi, h[k].z>>]

construct_graph(h, layer_pairs, phi_slope_max, z0_max, module_maps, s) ==
    IF ~AnyPairPopulated(h, layer_pairs)
    THEN [x |-> NodeMatrix(h), edge_index |-> <<>>, edge_attr |-> <<>>,
          y |-> <<>>, s |-> s, n_incorrect |-> 0]
    ELSE LET edges == EdgesUpTo(h, layer_pairs, phi_slope_max, z0_max,
                                module_maps, Len(layer_pairs))
             pid1 == [k \in DOMAIN edges |-> Loc(h, edges[k].index_1).particle_id]
             pid2 == [k \in DOMAIN edges |-> Loc(h, edges[k].index_2).particle_id]
             y == [k \in DOMAIN edges |-> EdgeLabel(pid1[k], pid2[k])]
         IN  [x |-> NodeMatrix(h),
              edge_index |-> [k \in DOMAIN edges |->
                                <<NodeIdx(h, edges[k].index_1),
                                  NodeIdx(h, edges[k].index_2)>>],
              edge_attr |-> [k \in DOMAIN edges |->
                                <<edges[k].dr, edges[k].dphi, edges[k].dz>>],
              y |-> y, s |-> s,
              n_incorrect |-> check_truth_labels(h, edges, y, pid1)]

---------------------------------------------------------------------------
(* process_event: the valid layer pair connections.                        *)

BarrelLayerPairs == <<<<0, 1>>, <<1, 2>>, <<2, 3>>>>

EndcapLayerPairs ==
    <<<<0, 4>>, <<1, 4>>, <<2, 4>>, <<0, 11>>, <<1, 11>>, <<2, 11>>,
      <<4, 5>>, <<5, 6>>, <<6, 7>>, <<7, 8>>, <<8, 9>>, <<9, 10>>,
      <<11, 12>>, <<12, 13>>, <<13, 14>>, <<14, 15>>, <<15, 16>>, <<16, 17>>>>

\* layer_pairs, by the endcaps flag.
LayerPairs(endcaps) ==
    IF endcaps THEN BarrelLayerPairs \o EndcapLayerPairs ELSE BarrelLayerPairs

---------------------------------------------------------------------------
(* The edge constructor on its own: a sector's hits, the cuts, the module  *)
(* maps.                                                                   *)

\* The hits a sector may hold: barrel layers 0..2 at radii 32, 72, 116 and
\* the innermost endcap layers 4 and 11 at z = -600, 600; particles 1 and 2
\* and noise (0); modules 0 and 1.
GraphCatalogue ==
    << Shape(32, 0, -400, 0, 0, 1),
       Shape(32, 7, 10, 0, 1, 0),
       Shape(72, 0, -500, 1, 0, 1),
       Shape(72, -7, 20, 1, 1, 2),
       Shape(72, 1, -480, 1, 0, 0),
       Shape(116, 0, 40, 2, 0, 2),
       Shape(116, 0, -550, 2, 1, 1),
       Shape(100, 0, -600, 4, 0, 1),
       Shape(72, 0, -600, 4, 1, 1),
       Shape(100, 0, 600, 11, 0, 2) >>

\* The rows of a catalogue picked by the set of ordinals S, in order; row k
\* of the catalogue keeps the row label k (a sector's hits keep the labels
\* they had in the event) and gets the hit id k + 1.
RECURSIVE Pick(_, _)
Pick(cat, S) ==
    IF S = {} THEN <<>>
    ELSE LET k == CHOOSE m \in S : \A o \in S : o <= m
         IN  Append(Pick(cat, S \ {k}),
                    [index |-> k, hit_id |-> k + 1] @@ cat[k])

\* The subsets of S with at most n elements.
SubsetsUpTo(S, n) == {T \in SUBSET S : Cardinality(T) <= n}

\* The cuts: phi_slope_max in angle units per millimetre, z0_max in
\* millimetres.
PhiSlopeMaxValues == {[num |-> 1, den |-> 20], [num |-> 1, den |-> 1]}
Z0MaxValues == {400, 15000}

\* module_maps with a module map for every layer pair: the pairs of equal
\* module ids.
SameModuleMaps(layer_pairs) ==
    [none |-> FALSE,
     maps |-> [lp \in Range(layer_pairs) |-> ModuleMap({<<0, 0>>, <<1, 1>>})]]

GraphInit ==
    /\ pc = "construct_graph"
    /\ \E S \in SubsetsUpTo(DOMAIN GraphCatalogue, MaxGraphHits) :
          hits = Pick(GraphCatalogue, S)
    /\ \E endcaps \in BOOLEAN, psm \in PhiSlopeMaxValues, zm \in Z0MaxValues,
          with_maps \in BOOLEAN :
          args = [layer_pairs |-> LayerPairs(endcaps),
                  phi_slope_max |-> psm, z0_max |-> zm,
                  module_maps |-> IF with_maps
                                  THEN SameModuleMaps(LayerPairs(endcaps))
                                  ELSE None]
    /\ hits_sectors = None /\ sector_info = None
    /\ particle_properties = None /\ sectors = None /\ graph = None
    /\ summary_stats = None /\ event = None /\ selected = None

ConstructGraph ==
    /\ pc = "construct_graph"
    /\ graph' = construct_graph(hits, args.layer_pairs, args.phi_slope_max,
                                args.z0_max, args.module_maps, <<-1, -1>>)
    /\ pc' = "graph_done"
    /\ UNCHANGED <<args, hits, hits_sectors, sector_info, particle_properties,
                   sectors, summary_stats, event, selected>>

GraphNext == ConstructGraph

SpecGraph == GraphInit /\ [][GraphNext]_vars

---------------------------------------------------------------------------
(* get_particle_properties and get_n_track_segs.                           *)

\* The sum of f over the finite set S of its arguments.
RECURSIVE SumOver(_, _)
SumOver(f, S) ==
    IF S = {} THEN 0
    ELSE LET a == CHOOSE b \in S : TRUE
         IN  f[a] + SumOver(f, S \ {a})

\* np.unique: the elements of S in ascending order.
RECURSIVE Unique(_)
Unique(S) ==
    IF S = {} THEN <<>>
    ELSE LET top == CHOOSE m \in S : \A o \in S : o <= m
         IN  Append(Unique(S \ {top}), top)

\* hits.groupby('particle_id'): the keys, and the rows of a key.
ParticleIds(h) == {row.particle_id : row \in Range(h)}

ParticleHits(h, p) ==
    LET OfParticle(row) == row.particle_id = p
    IN  SelectSeq(h, OfParticle)

\* Counter(layers_hit)[layer]
hits_per_layer(particle_hits, layer) ==
    Cardinality({k \in DOMAIN particle_hits : particle_hits[k].layer = layer})

\* set(zip(layers[:-1], layers[1:])) with layers = np.unique(layers_hit)
particle_layer_pairs(particle_hits) ==
    LET layers == Unique({row.layer : row \in Range(particle_hits)})
    IN  {<<layers[k], layers[k + 1]>> : k \in 1..(Len(layers) - 1)}

\* A count of one segment per good layer pair, whatever the number of hits
\* in its layers (a mutant of n_track_segs_of).
NTrackSegsOnePerPair(particle_hits, valid_connections) ==
    Cardinality(particle_layer_pairs(particle_hits) \cap valid_connections)

\* The number of track segments of one particle (not noise): the sum, over
\* its good layer pairs, of the product of its hit counts in the two layers;
\* 0 for a particle with hits in one layer only.
n_track_segs_of(particle_hits, valid_connections) ==
    LET good_layer_pairs ==
            particle_layer_pairs(particle_hits) \cap valid_connections
        count == [lp \in good_layer_pairs |->
                    hits_per_layer(particle_hits, lp[1])
                    * hits_per_layer(particle_hits, lp[2])]
    IN  IF Cardinality({row.layer : row \in Range(particle_hits)}) = 1 THEN 0
        ELSE SumOver(count, good_layer_pairs)

\* A reconstructable without the case of one layer (a mutant of
\* reconstructable_of).
ReconstructableOfPairsOnly(particle_hits, valid_connections) ==
    particle_layer_pairs(particle_hits) \subseteq valid_connections

\* reconstructable: 0 for one layer, else whether every pair is valid.
reconstructable_of(particle_hits, valid_connections) ==
    IF Cardinality({row.layer : row \in Range(particle_hits)}) = 1 THEN FALSE
    ELSE particle_layer_pairs(particle_hits) \subseteq valid_connections

get_particle_properties(h, valid_connections) ==
    [pt |-> [p \in ParticleIds(h) |->
                IF p = 0 THEN 0 ELSE ParticleHits(h, p)[1].pt],
     eta |-> [p \in ParticleIds(h) |->
                IF p = 0 THEN <<0, 1>> ELSE ParticleHits(h, p)[1].eta_pt],
     n_track_segs |-> [p \in ParticleIds(h) |->
                IF p = 0 THEN 0
                ELSE n_track_segs_of(ParticleHits(h, p), valid_connections)],
     reconstructable |-> [p \in ParticleIds(h) |->
                IF p = 0 THEN FALSE
                ELSE reconstructable_of(ParticleHits(h, p), valid_connections)]]

\* A sector count of one segment per good layer pair (a mutant of
\* get_n_track_segs).
GetNTrackSegsOnePerPair(h, valid_connections) ==
    [p \in ParticleIds(h) |->
        IF p = 0 THEN 0
        ELSE NTrackSegsOnePerPair(ParticleHits(h, p), valid_connections)]

get_n_track_segs(h, valid_connections) ==
    [p \in ParticleIds(h) |->
        IF p = 0 THEN 0
        ELSE n_track_segs_of(ParticleHits(h, p), valid_connections)]

---------------------------------------------------------------------------
(* graph_summary.                                                          *)

\* A ratio a/b, b # 0, kept as the fraction; 0 is the fraction 0/1.
Zero == [num |-> 0, den |-> 1]

\* A division that does not look at its divisor: a/0 stands for the fault
\* (a mutant of div).
DivUnguarded(a, b) == [num |-> a, den |-> b]

\* div(a, b): float(a)/b if b else 0
div(a, b) == IF b # 0 THEN [num |-> a, den |-> b] ELSE Zero

\* np.sum(sector['y']), np.sum(sector['y'] == 0)
SumY(gr) == Cardinality({k \in DOMAIN gr.y : gr.y[k] = 1})
CountFalse(gr) == Cardinality({k \in DOMAIN gr.y : gr.y[k] = 0})

\* np.sum(list(d.values())) of a dictionary d of counts.
SumValues(d) == SumOver(d, DOMAIN d)

\* A correction with the wrong sign (a mutant of SectorTrue).
SectorTrueAdded(gr) == SumY(gr) + gr.n_incorrect

\* n_true of a sector: corrected for multiple transition edges.
SectorTrue(gr) == SumY(gr) - gr.n_incorrect

graph_summary(secs, props, info) ==
    LET total_track_segs == SumValues(props.n_track_segs)
        segs == [i \in DOMAIN secs |->
                    SumValues(props.n_track_segs_per_s[secs[i].s])]
        trues == [i \in DOMAIN secs |-> SectorTrue(secs[i])]
        edges == [i \in DOMAIN secs |-> Len(secs[i].y)]
        nodes == [i \in DOMAIN secs |-> Len(secs[i].x)]
        total_track_segs_sectored == SumOver(segs, DOMAIN secs)
        total_true == SumOver(trues, DOMAIN secs)
        total_edges == SumOver(edges, DOMAIN secs)
    IN  [n_nodes |-> SumOver(nodes, DOMAIN secs),
         n_edges |-> total_edges,
         efficiency |-> div(total_true, total_track_segs),
         purity |-> div(total_true, total_edges),
         boundary_fraction |-> div(total_track_segs - total_track_segs_sectored,
                                   total_track_segs),
         sector_stats |->
            [i \in DOMAIN secs |->
                [eta_range |-> info[secs[i].s].eta_range,
                 phi_range |-> info[secs[i].s].phi_range,
                 n_nodes |-> nodes[i], n_edges |-> edges[i],
                 purity |-> div(trues[i], edges[i]),
                 efficiency |-> div(trues[i], segs[i])]]]

---------------------------------------------------------------------------
(* process_event, from the selected hits on.                               *)

\* np.linspace(*phi_range, num=n_phi_sectors+1) over (-pi, pi), for a
\* number of sectors that divides 2 * PiUnits.
PhiEdges(n_phi_sectors) ==
    [k \in 1..(n_phi_sectors + 1) |->
        -PiUnits + (k - 1) * ((2 * PiUnits) \div n_phi_sectors)]

\* sinh 5, on the grid: eta_range = [-5, 5] on the sinh scale.
SinhEtaMax == 74

\* np.linspace(*eta_range, num=n_eta_sectors+1) for one or two sectors.
EtaEdges(n_eta_sectors) ==
    IF n_eta_sectors = 1 THEN <<-SinhEtaMax, SinhEtaMax>>
    ELSE <<-SinhEtaMax, 0, SinhEtaMax>>

\* hits[['hit_id', 'r', 'phi', 'eta', 'z', 'evtid', 'layer', 'module_id',
\* 'particle_id']]: the columns pt and eta_pt are dropped.
HitColumns(row) ==
    [index |-> row.index, hit_id |-> row.hit_id, r |-> row.r,
     phi |-> row.phi, z |-> row.z, evtid |-> row.evtid, layer |-> row.layer,
     module_id |-> row.module_id, particle_id |-> row.particle_id]

\* hits_sectors.items(): the sector keys in the order they were inserted,
\* phi index outermost.
SectorOrder(phi_edges, eta_edges) ==
    LET n_eta == Len(eta_edges) - 1
        n_phi == Len(phi_edges) - 1
    IN  [k \in 1..(n_eta * n_phi) |-> <<(k - 1) % n_eta, (k - 1) \div n_eta>>]

\* The selected hits of an event: particle 1 with hits on both sides of
\* eta = 0, particle 2 with hits in layers 0, 1, 3 and 4, noise, and hits on
\* the boundaries phi = 0 and eta = 0.  pt and eta_pt are those of the
\* particle.
Kinematics(shape, pt, pz) == [pt |-> pt, eta_pt |-> calc_eta(pt, pz)] @@ shape

EventCatalogue ==
    << Kinematics(Shape(32, 1, -10, 0, 0, 1), 3, 1),
       Kinematics(Shape(72, 1, 15, 1, 0, 1), 3, 1),
       Kinematics(Shape(72, 1, -20, 1, 0, 1), 3, 1),
       Kinematics(Shape(32, -3, -400, 0, 0, 2), 5, -20),
       Kinematics(Shape(72, -3, -500, 1, 0, 2), 5, -20),
       Kinematics(Shape(172, -3, 50, 3, 0, 2), 5, -20),
       Kinematics(Shape(100, -3, -600, 4, 0, 2), 5, -20),
       Kinematics(Shape(72, 3, 5, 1, 0, 0), 0, 0),
       Kinematics(Shape(116, 0, 40, 2, 0, 1), 3, 1),
       Kinematics(Shape(32, 5, 0, 0, 0, 2), 5, -20) >>

Init ==
    /\ pc = "particle_properties"
    /\ \E S \in SubsetsUpTo(DOMAIN EventCatalogue, MaxEventHits) :
          hits = Pick(EventCatalogue, S)
    /\ \E endcaps \in BOOLEAN, n_phi \in {1, 2}, n_eta \in {1, 2},
          psm \in PhiSlopeMaxValues :
          args = [layer_pairs |-> LayerPairs(endcaps),
                  n_phi_sectors |-> n_phi, n_eta_sectors |-> n_eta,
                  phi_slope_max |-> psm, z0_max |-> 15000,
                  module_maps |-> None]
    /\ hits_sectors = None /\ sector_info = None
    /\ particle_properties = None /\ sectors = None /\ graph = None
    /\ summary_stats = None /\ event = None /\ selected = None

\* Lines 505-510: the truth of each particle, then the hit columns.
ParticleProperties ==
    /\ pc = "particle_properties"
    /\ particle_properties' =
          get_particle_properties(hits, Range(args.layer_pairs))
    /\ hits' = [k \in DOMAIN hits |-> HitColumns(hits[k])]
    /\ pc' = "sectors"
    /\ UNCHANGED <<args, hits_sectors, sector_info, sectors, graph,
                   summary_stats, event, selected>>

\* Lines 512-515: divide the detector into sectors.
SplitSectors ==
    /\ pc = "sectors"
    /\ LET res == split_detector_sectors(hits, PhiEdges(args.n_phi_sectors),
                                         EtaEdges(args.n_eta_sectors))
       IN  /\ hits_sectors' = res.hits_sectors
           /\ sector_info' = res.sector_info
    /\ pc' = "track_segs"
    /\ UNCHANGED <<args, hits, particle_properties, sectors, graph,
                   summary_stats, event, selected>>

\* Lines 517-523: the particle truth in each sector.
TrackSegsPerSector ==
    /\ pc = "track_segs"
    /\ particle_properties' =
          [n_track_segs_per_s |->
              [s \in DOMAIN hits_sectors |->
                  get_n_track_segs(hits_sectors[s], Range(args.layer_pairs))]]
          @@ particle_properties
    /\ pc' = "graphs"
    /\ UNCHANGED <<args, hits, hits_sectors, sector_info, sectors, graph,
                   summary_stats, event, selected>>

\* Lines 529-536: one graph per sector.
ConstructGraphs ==
    /\ pc = "graphs"
    /\ LET order == SectorOrder(PhiEdges(args.n_phi_sectors),
                                EtaEdges(args.n_eta_sectors))
       IN  sectors' = [k \in DOMAIN order |->
                          construct_graph(hits_sectors[order[k]],
                                          args.layer_pairs, args.phi_slope_max,
                                          args.z0_max, args.module_maps,
                                          order[k])]
    /\ pc' = "summary"
    /\ UNCHANGED <<args, hits, hits_sectors, sector_info,
                   particle_properties, graph, summary_stats, event, selected>>

\* Lines 538-540: the summary statistics.
GraphSummary ==
    /\ pc = "summary"
    /\ summary_stats' = graph_summary(sectors, particle_properties, sector_info)
    /\ pc' = "done"
    /\ UNCHANGED <<args, hits, hits_sectors, sector_info,
                   particle_properties, sectors, graph, event, selected>>

Next ==
    \/ ParticleProperties
    \/ SplitSectors
    \/ TrackSegsPerSector
    \/ ConstructGraphs
    \/ GraphSummary

Spec == Init /\ [][Next]_vars

---------------------------------------------------------------------------
(* select_hits.                                                            *)
(* Here a table is a record of its column names and its rows, since the    *)
(* code fails on a table that lacks a column it groups by.                 *)

DataFrame(columns, rows) == [columns |-> columns, rows |-> rows]

\* np.sqrt on the grid: the whole part of the square root.
Sqrt(n) == CHOOSE k \in 0..n : k * k <= n /\ n < (k + 1) * (k + 1)

\* An undefined number (the eta_pt of the appended noise rows).
NaN == <<0, 0>>

\* Barrel volume and layer ids, then those of the endcaps.
BarrelVlids == <<<<8, 2>>, <<8, 4>>, <<8, 6>>, <<8, 8>>>>

EndcapVlids ==
    <<<<7, 14>>, <<7, 12>>, <<7, 10>>, <<7, 8>>, <<7, 6>>, <<7, 4>>, <<7, 2>>,
      <<9, 2>>, <<9, 4>>, <<9, 6>>, <<9, 8>>, <<9, 10>>, <<9, 12>>, <<9, 14>>>>

Vlids(endcaps) == IF endcaps THEN BarrelVlids \o EndcapVlids ELSE BarrelVlids

\* The concatenation of the sequences of a sequence.
RECURSIVE Concat(_)
Concat(seqs) ==
    IF seqs = <<>> THEN <<>>
    ELSE Concat(SubSeq(seqs, 1, Len(seqs) - 1)) \o seqs[Len(seqs)]

\* vlid_groups.get_group(vlid): the rows of a (volume, layer), in order; the
\* code raises a KeyError when there is none.
VlidGroup(rows, vlid) ==
    LET InGroup(row) == <<row.volume_id, row.layer_id>> = vlid
    IN  SelectSeq(rows, InGroup)

\* pd.concat([get_group(vlids[i]).assign(layer=i) ...]): by layer, and in
\* the order of the table within a layer.
WithLayers(rows, vlids) ==
    Concat([i \in DOMAIN vlids |->
              LET grp == VlidGroup(rows, vlids[i])
              IN  [k \in DOMAIN grp |-> [layer |-> i - 1] @@ grp[k]]])

\* particles['pt'], particles['eta_pt']
WithPt(particles) ==
    [k \in DOMAIN particles |->
        LET pt == Sqrt(particles[k].px * particles[k].px
                       + particles[k].py * particles[k].py)
        IN  [pt |-> pt, eta_pt |-> calc_eta(pt, particles[k].pz)]
            @@ particles[k]]

\* truth[['hit_id', 'particle_id']].merge(particles[['particle_id', 'pt',
\* 'eta_pt']], on='particle_id'): in the order of truth.
MergeTruth(truth, particles) ==
    Concat([k \in DOMAIN truth |->
              LET SameParticle(prt) == prt.particle_id = truth[k].particle_id
                  match == SelectSeq(particles, SameParticle)
              IN  [m \in DOMAIN match |->
                      [hit_id |-> truth[k].hit_id,
                       particle_id |-> truth[k].particle_id,
                       pt |-> match[m].pt, eta_pt |-> match[m].eta_pt]]])

\* truth[['hit_id', 'particle_id']][truth.particle_id == 0] with pt = 0.
TruthNoise(truth) ==
    LET IsNoise(row) == row.particle_id = 0
        noise == SelectSeq(truth, IsNoise)
    IN  [k \in DOMAIN noise |->
            [hit_id |-> noise[k].hit_id, particle_id |-> 0,
             pt |-> 0, eta_pt |-> NaN]]

\* The derived hit variables r, phi, eta and the columns kept.  phi is
\* carried as the direction (y, x) it is the angle of.
DerivedHit(row) ==
    LET r == Sqrt(row.x * row.x + row.y * row.y)
    IN  [hit_id |-> row.hit_id, r |-> r, phi |-> <<row.y, row.x>>,
         eta |-> calc_eta(r, row.z), z |-> row.z, layer |-> row.layer,
         module_id |-> row.module_id]

\* hits[...].merge(truth[...], on='hit_id'): in the order of hits, with a
\* new RangeIndex.
MergeHits(rows, truth) ==
    LET joined ==
            Concat([k \in DOMAIN rows |->
                      LET SameHit(t) == t.hit_id = rows[k].hit_id
                          match == SelectSeq(truth, SameHit)
                      IN  [m \in DOMAIN match |->
                              [particle_id |-> match[m].particle_id,
                               pt |-> match[m].pt, eta_pt |-> match[m].eta_pt]
                              @@ DerivedHit(rows[k])]])
    IN  [k \in DOMAIN joined |-> [index |-> k - 1] @@ joined[k]]

\* The keys of groupby(['particle_id', 'layer']), in ascending order.
RECURSIVE SortedKeys(_)
SortedKeys(K) ==
    IF K = {} THEN <<>>
    ELSE LET top == CHOOSE a \in K :
                      \A b \in K : b[1] < a[1] \/ (b[1] = a[1] /\ b[2] <= a[2])
         IN  Append(SortedKeys(K \ {top}), top)

\* The first row of a group, whatever its radius (a mutant of IdxMin).
IdxFirst(grp) == grp[1].index

\* r.idxmin() of a group: the label of the first row of minimal r.
IdxMin(grp) ==
    LET k == CHOOSE m \in DOMAIN grp :
                /\ \A o \in DOMAIN grp : grp[m].r <= grp[o].r
                /\ \A o \in 1..(m - 1) : grp[o].r > grp[m].r
    IN  grp[k].index

\* Lines 259-263: one hit of minimal r per (particle, layer), in the order
\* of the groups, then the noise hits.
RemoveDuplicates(rows) ==
    LET IsNoise(row) == row.particle_id = 0
        IsParticle(row) == row.particle_id # 0
        noise_hits == SelectSeq(rows, IsNoise)
        particle_hits == SelectSeq(rows, IsParticle)
        keys == SortedKeys({<<row.particle_id, row.layer>> :
                               row \in Range(particle_hits)})
        Group(key) ==
            LET InGroup(row) == <<row.particle_id, row.layer>> = key
            IN  SelectSeq(particle_hits, InGroup)
    IN  [k \in DOMAIN keys |-> Loc(particle_hits, IdxMin(Group(keys[k])))]
        \o noise_hits

\* particle_id_map: the rank (from 1) of a particle in the particles table,
\* and 0 for 0.
ParticleIdMap(particles, p) ==
    IF p = 0 THEN 0
    ELSE CHOOSE k \in DOMAIN particles : particles[k].particle_id = p

HitsColumns ==
    {"hit_id", "r", "phi", "eta", "z", "layer", "module_id",
     "particle_id", "pt", "eta_pt"}

\* What select_hits returns: the two tables, or the exception it raised.
Returned(h, particles) == [raised |-> "none", hits |-> h, particles |-> particles]
Raised(exception) ==
    [raised |-> exception, hits |-> DataFrame({}, <<>>),
     particles |-> DataFrame({}, <<>>)]

select_hits(h, truth, particles, pt_min, endcaps, remove_noise, remove_duplicates) ==
    LET vlids == Vlids(endcaps)
    IN  IF ~({"volume_id", "layer_id"} \subseteq h.columns)
        THEN Raised("KeyError")    \* line 230: groupby of a missing column
        ELSE IF \E i \in DOMAIN vlids : VlidGroup(h.rows, vlids[i]) = <<>>
        THEN Raised("KeyError")    \* line 231: get_group of a missing group
        ELSE
        LET layered == WithLayers(h.rows, vlids)
            with_pt == WithPt(particles.rows)
            AbovePtMin(prt) == prt.pt > pt_min
            kept == SelectSeq(with_pt, AbovePtMin)
            truth_noise == TruthNoise(truth.rows)
            truth_kept == MergeTruth(truth.rows, kept)
            truth_all == IF ~remove_noise THEN truth_kept \o truth_noise
                         ELSE truth_kept
            merged == MergeHits(layered, truth_all)
            deduped == IF remove_duplicates THEN RemoveDuplicates(merged)
                       ELSE merged
            InHits(prt) ==
                \E row \in Range(deduped) : row.particle_id = prt.particle_id
            present == SelectSeq(kept, InHits)
        IN  Returned(
                DataFrame(HitsColumns,
                    [k \in DOMAIN deduped |->
                        [deduped[k] EXCEPT !.particle_id =
                            ParticleIdMap(present, @)]]),
                DataFrame(particles.columns \cup {"pt", "eta_pt"},
                    [k \in DOMAIN present |->
                        [present[k] EXCEPT !.particle_id =
                            ParticleIdMap(present, @)]]))

---------------------------------------------------------------------------
(* The hit selector on its own: a raw event and the selection flags.       *)

RawHit(volume_id, layer_id, x, y, z, module_id) ==
    [volume_id |-> volume_id, layer_id |-> layer_id, x |-> x, y |-> y,
     z |-> z, module_id |-> module_id]

\* The raw hits of an event, by ordinal, and the particle of each (the truth
\* table has one row per hit): one hit in each barrel layer, second hits of
\* a particle in a layer at a smaller and at an equal radius, a second noise
\* hit in a layer, a hit of a low-pt particle, a hit outside the listed
\* (volume, layer) pairs.
RawCatalogue ==
    << RawHit(8, 2, 32, 0, -10, 0),
       RawHit(8, 4, 0, 72, 20, 0),
       RawHit(8, 6, 116, 0, 30, 0),
       RawHit(8, 8, 0, 172, 40, 0),
       RawHit(8, 2, 20, 21, -9, 1),
       RawHit(8, 2, 0, 32, -11, 1),
       RawHit(8, 6, 100, 0, 28, 1),
       RawHit(8, 8, 0, 170, 41, 1),
       RawHit(8, 4, 72, 0, 5, 1),
       RawHit(13, 2, 32, 0, 900, 0) >>

RawParticleOf == <<7, 7, 5, 0, 7, 7, 5, 0, 9, 7>>

\* The particles table: particle 9 has pt = 1, the others pt = 5; the order
\* of the table is not that of the particle ids.
RawParticles ==
    << [particle_id |-> 7, px |-> 3, py |-> 4, pz |-> 1],
       [particle_id |-> 5, px |-> 4, py |-> 3, pz |-> -2],
       [particle_id |-> 9, px |-> 0, py |-> 1, pz |-> 3] >>

RawEvent(S) ==
    LET ids == Unique(S)
    IN  [hits |-> DataFrame({"hit_id", "x", "y", "z", "volume_id", "layer_id",
                             "module_id"},
                    [k \in DOMAIN ids |->
                        [hit_id |-> ids[k]] @@ RawCatalogue[ids[k]]]),
         truth |-> DataFrame({"hit_id", "particle_id"},
                    [k \in DOMAIN ids |->
                        [hit_id |-> ids[k],
                         particle_id |-> RawParticleOf[ids[k]]]]),
         particles |-> DataFrame({"particle_id", "px", "py", "pz"},
                                 RawParticles)]

SelInit ==
    /\ pc = "select_hits"
    /\ \E S \in SubsetsUpTo(DOMAIN RawCatalogue, MaxRawHits) :
          event = RawEvent(S)
    /\ \E pt_min \in {0, 2}, endcaps \in BOOLEAN, remove_noise \in BOOLEAN,
          remove_duplicates \in BOOLEAN :
          args = [pt_min |-> pt_min, endcaps |-> endcaps,
                  remove_noise |-> remove_noise,
                  remove_duplicates |-> remove_duplicates]
    /\ selected = <<>>
    /\ hits = None /\ hits_sectors = None /\ sector_info = None
    /\ particle_properties = None /\ sectors = None /\ graph = None
    /\ summary_stats = None

\* Lines 501-502: the hit selection of an event.  The call adds the columns
\* pt and eta_pt to the particles table it is given (line 235), unless it
\* has failed before.
SelectHits ==
    /\ pc = "select_hits"
    /\ LET res == select_hits(event.hits, event.truth, event.particles,
                              args.pt_min, args.endcaps, args.remove_noise,
                              args.remove_duplicates)
       IN  /\ selected' = <<res>>
           /\ event' = IF res.raised = "none"
                       THEN [event EXCEPT !.particles =
                               DataFrame(@.columns \cup {"pt", "eta_pt"},
                                         WithPt(@.rows))]
                       ELSE event
           /\ pc' = IF res.raised = "none" THEN "selected" ELSE "failed"
    /\ UNCHANGED <<args, hits, hits_sectors, sector_info, particle_properties,
                   sectors, graph, summary_stats>>

\* The hit selector applied, with the same flags, to the hits and particles
\* it has returned.
SelectHitsAgain ==
    /\ pc = "selected"
    /\ selected' = Append(selected,
          select_hits(selected[1].hits, event.truth, selected[1].particles,
                      args.pt_min, args.endcaps, args.remove_noise,
                      args.remove_duplicates))
    /\ pc' = "selected_again"
    /\ UNCHANGED <<args, event, hits, hits_sectors, sector_info,
                   particle_properties, sectors, graph, summary_stats>>

SelNext == SelectHits \/ SelectHitsAgain

SpecSel == SelInit /\ [][SelNext]_vars

---------------------------------------------------------------------------
(* Claims about the sector partitioner (checked under SpecSec).            *)

\* The row labels of the hits of sector s.
SectorMembers(s) == {hits_sectors[s][k].index : k \in DOMAIN hits_sectors[s]}

\* How many rows, over all sectors, carry the row label idx.
Occurrences(idx) ==
    Cardinality({<<s, k>> \in (DOMAIN hits_sectors) \X (0..Len(hits)) :
                    /\ k \in DOMAIN hits_sectors[s]
                    /\ hits_sectors[s][k].index = idx})

NoHitTwice == \A h \in Range(hits) : Occurrences(h.index) <= 1

\* h satisfies the half-open pair [phi_min, phi_max) x [eta_min, eta_max).
InHalfOpenPair(h, j, i) ==
    /\ args.phi_edges[i + 1] <= h.phi /\ h.phi < args.phi_edges[i + 2]
    /\ args.eta_edges[j + 1] * h.r <= h.z /\ h.z < args.eta_edges[j + 2] * h.r

\* h satisfies the open pair (phi_min, phi_max) x (eta_min, eta_max).
InOpenPair(h, j, i) ==
    /\ args.phi_edges[i + 1] < h.phi /\ h.phi < args.phi_edges[i + 2]
    /\ args.eta_edges[j + 1] * h.r < h.z /\ h.z < args.eta_edges[j + 2] * h.r

AllSectorMembers == UNION {SectorMembers(s) : s \in DOMAIN hits_sectors}

\* C2 as stated: the union of the sector hit sets is exactly the set of input
\* hits that satisfy at least one half-open [min, max) interval pair, and no
\* hit appears in more than one sector.
C2_HalfOpenUnion ==
    pc = "split_done" =>
        /\ AllSectorMembers =
              {h.index : h \in {g \in Range(hits) :
                  \E s \in DOMAIN hits_sectors : InHalfOpenPair(g, s[1], s[2])}}
        /\ NoHitTwice

\* C2 as amended: the union of the sector hit sets is exactly the set of input
\* hits that satisfy at least one open (min, max) interval pair, and no hit
\* appears in more than one sector.
C2_OpenUnion ==
    pc = "split_done" =>
        /\ AllSectorMembers =
              {h.index : h \in {g \in Range(hits) :
                  \E s \in DOMAIN hits_sectors : InOpenPair(g, s[1], s[2])}}
        /\ NoHitTwice

\* C2's case: the partition was made of hits of which one lies on the lower
\* end of an interval pair (and is in no sector) and one is in a sector.
C2_Witness ==
    /\ pc = "split_done"
    /\ \E h \in Range(hits) :
          /\ \E s \in DOMAIN hits_sectors : InHalfOpenPair(h, s[1], s[2])
          /\ h.index \notin AllSectorMembers
    /\ AllSectorMembers # {}

OnPhiBoundary(h) == \E k \in DOMAIN args.phi_edges : h.phi = args.phi_edges[k]
OnEtaBoundary(h) == \E k \in DOMAIN args.eta_edges : h.z = args.eta_edges[k] * h.r

\* C3: both interval ends are exclusive: a hit whose phi equals any phi
\* boundary or whose eta equals any eta boundary is a member of no sector, and
\* a hit strictly inside a (phi, eta) interval pair is a member of exactly the
\* sector keyed (eta_index, phi_index).
C3_ExclusiveBoundaries ==
    pc = "split_done" =>
        \A h \in Range(hits) :
            /\ (OnPhiBoundary(h) \/ OnEtaBoundary(h)) =>
                  h.index \notin AllSectorMembers
            /\ \A j \in 0..(Len(args.eta_edges) - 2),
                  i \in 0..(Len(args.phi_edges) - 2) :
                  InOpenPair(h, j, i) =>
                      /\ <<j, i>> \in DOMAIN hits_sectors
                      /\ \A s \in DOMAIN hits_sectors :
                            (h.index \in SectorMembers(s)) <=> (s = <<j, i>>)

\* C3's case: one hit on an inner eta boundary and on no phi boundary, and one
\* hit strictly inside a sector that is not the first eta sector.
C3_Witness ==
    /\ pc = "split_done"
    /\ \E h \in Range(hits) :
          /\ Len(args.eta_edges) > 2
          /\ h.z = args.eta_edges[2] * h.r
          /\ ~OnPhiBoundary(h)
    /\ \E s \in DOMAIN hits_sectors :
          s[1] > 0 /\ SectorMembers(s) # {}

---------------------------------------------------------------------------
(* Claims about the edge constructor and its truth labels (checked under   *)
(* SpecGraph).                                                             *)

\* The hits at the two ends of edge k of the graph (edge_index holds
\* positions in the node matrix, which has one row per hit, in order).
EdgeStart(k) == hits[graph.edge_index[k][1] + 1]
EdgeEnd(k) == hits[graph.edge_index[k][2] + 1]

\* The edges of the graph, as pairs of row labels.
EmittedEdges == {<<EdgeStart(k).index, EdgeEnd(k).index>> : k \in DOMAIN graph.edge_index}

\* h1 and h2 lie in a declared layer pair and pass every cut.
PassesAllCuts(h1, h2) ==
    \E n \in DOMAIN args.layer_pairs :
        LET lp == args.layer_pairs[n]
            dr == h2.r - h1.r
            dz == h2.z - h1.z
            dphi == calc_dphi(h1.phi, h2.phi)
        IN  /\ h1.layer = lp[1] /\ h2.layer = lp[2]
            /\ dr # 0
            /\ Abs(dphi) * args.phi_slope_max.den < args.phi_slope_max.num * Abs(dr)
            /\ Abs(h1.z * dr - h1.r * dz) < args.z0_max * Abs(dr)
            /\ ~intersected_layer(<<h1, h2>>, lp[1], lp[2])
            /\ \/ args.module_maps.none
               \/ <<h1.module_id, h2.module_id>> \in args.module_maps.maps[lp].adjacent

\* C1: construct_graph emits the edge (h1, h2) if and only if h1 lies in
\* layer1 and h2 in layer2 of some declared pair and the pair passes every
\* cut: |phi_slope| < phi_slope_max, |z0| < z0_max, no intersects-other-layer
\* veto and, with a module map for the layer pair, the mask flags their
\* module ids.
C1_EdgesIffCuts ==
    pc = "graph_done" =>
        EmittedEdges =
            {<<h1.index, h2.index>> : <<h1, h2>> \in
                {pr \in Range(hits) \X Range(hits) : PassesAllCuts(pr[1], pr[2])}}

\* C1's case: with module maps supplied, an edge is emitted, while a pair of
\* a declared layer pair that passes the geometric cuts is not, its module
\* ids not being flagged.
C1_Witness ==
    /\ pc = "graph_done"
    /\ ~args.module_maps.none
    /\ EmittedEdges # {}
    /\ \E h1 \in Range(hits), h2 \in Range(hits) :
          /\ \E n \in DOMAIN args.layer_pairs :
                /\ <<h1.layer, h2.layer>> = args.layer_pairs[n]
                /\ good_edge_mask(<<h1, h2>>, h1.layer, h2.layer,
                                  args.phi_slope_max, args.z0_max, None)
          /\ h1.module_id # h2.module_id
          /\ <<h1.index, h2.index>> \notin EmittedEdges

\* C4: the label of an emitted edge is 1 if and only if both its hits carry
\* the same particle id and that id is not zero; an edge touching a noise
\* hit, also one between two noise hits, is labelled 0.
C4_TrueEdgeLabels ==
    pc = "graph_done" =>
        /\ Len(graph.y) = Len(graph.edge_index)
        /\ \A k \in DOMAIN graph.y :
              /\ graph.y[k] \in {0, 1}
              /\ graph.y[k] = 1 <=>
                    /\ EdgeStart(k).particle_id = EdgeEnd(k).particle_id
                    /\ EdgeStart(k).particle_id # 0
              /\ (EdgeStart(k).particle_id = 0 \/ EdgeEnd(k).particle_id = 0)
                    => graph.y[k] = 0

\* C4's case: a graph with a true edge and an edge between two noise hits.
C4_Witness ==
    /\ pc = "graph_done"
    /\ \E k \in DOMAIN graph.y : graph.y[k] = 1
    /\ \E k \in DOMAIN graph.y :
          EdgeStart(k).particle_id = 0 /\ EdgeEnd(k).particle_id = 0

\* The barrel-to-innermost-endcap layer pair types that the true edges of
\* particle p connect.
TransitionTypes(p) ==
    {lp \in {0, 1, 2} \X {4, 11} :
        \E k \in DOMAIN graph.y :
            /\ graph.y[k] = 1
            /\ EdgeStart(k).particle_id = p
            /\ <<EdgeStart(k).layer, EdgeEnd(k).layer>> = lp}

---------------------------------------------------------------------------
(* Claims about the summary of an event (checked under Spec).              *)

\* Particle p has exactly two hits, in two layers that form a declared layer
\* pair, and the two hits are in sectors of different eta index.
SplitAcrossEta(p) ==
    LET ph == ParticleHits(hits, p)
    IN  /\ p # 0
        /\ Len(ph) = 2
        /\ \/ <<ph[1].layer, ph[2].layer>> \in Range(args.layer_pairs)
           \/ <<ph[2].layer, ph[1].layer>> \in Range(args.layer_pairs)
        /\ \E s \in DOMAIN hits_sectors, t \in DOMAIN hits_sectors :
              /\ s[1] # t[1]
              /\ ph[1].index \in SectorMembers(s)
              /\ ph[2].index \in SectorMembers(t)

\* The particle of C6 is counted once in the unsectored total of expected
\* segments and not at all in any sector.
SplitParticleLosesItsSegment ==
    pc = "done" =>
        \A p \in ParticleIds(hits) :
            SplitAcrossEta(p) =>
                /\ particle_properties.n_track_segs[p] = 1
                /\ \A s \in DOMAIN hits_sectors :
                      p \in DOMAIN particle_properties.n_track_segs_per_s[s] =>
                          particle_properties.n_track_segs_per_s[s][p] = 0

\* C6: in an event with a particle of exactly two hits, in the two layers of
\* a declared layer pair, that fall into two different eta sectors, the
\* particle counts in the unsectored expected-segment total and in no
\* sector's, so the boundary_fraction of the event is greater than 0.
C6_BoundaryFractionPositive ==
    pc = "done" =>
        \A p \in ParticleIds(hits) :
            SplitAcrossEta(p) =>
                /\ particle_properties.n_track_segs[p] = 1
                /\ \A s \in DOMAIN hits_sectors :
                      p \in DOMAIN particle_properties.n_track_segs_per_s[s] =>
                          particle_properties.n_track_segs_per_s[s][p] = 0
                /\ summary_stats.boundary_fraction.num
                      * summary_stats.boundary_fraction.den > 0

\* The expected segments of the sector of graph i, and of the event.
ExpectedInSector(i) ==
    SumValues(particle_properties.n_track_segs_per_s[sectors[i].s])
ExpectedInEvent == SumValues(particle_properties.n_track_segs)

\* C7: no ratio of graph_summary is a division by zero: a sector's purity is
\* 0 without edges and its efficiency is 0 without expected segments, and
\* the purity, efficiency and boundary_fraction of the event are 0 when
\* their denominator is 0.
C7_ZeroDenominators ==
    pc = "done" =>
        /\ \A i \in DOMAIN summary_stats.sector_stats :
              LET st == summary_stats.sector_stats[i]
              IN  /\ st.purity.den # 0 /\ st.efficiency.den # 0
                  /\ Len(sectors[i].y) = 0 => st.purity = Zero
                  /\ ExpectedInSector(i) = 0 => st.efficiency = Zero
        /\ summary_stats.purity.den # 0
        /\ summary_stats.efficiency.den # 0
        /\ summary_stats.boundary_fraction.den # 0
        /\ summary_stats.n_edges = 0 => summary_stats.purity = Zero
        /\ ExpectedInEvent = 0 =>
              /\ summary_stats.efficiency = Zero
              /\ summary_stats.boundary_fraction = Zero

\* C7's case: an event with hits and edges, of which one sector has no edge,
\* one sector has edges and no expected segment, and the event as a whole
\* has no expected segment.
C7_Witness ==
    /\ pc = "done"
    /\ \E i \in DOMAIN sectors : Len(sectors[i].y) = 0
    /\ \E i \in DOMAIN sectors :
          Len(sectors[i].y) > 0 /\ ExpectedInSector(i) = 0
    /\ ExpectedInEvent = 0

\* C7's other case: an event with hits and no edge at all.
C7_NoEdges ==
    pc = "done" /\ Len(hits) > 0 /\ summary_stats.n_edges = 0


---------------------------------------------------------------------------
(* Claims about the hit selector.                                          *)

\* The particle of a raw hit, from the truth table.
TruthParticle(hit_id) ==
    LET k == CHOOSE m \in DOMAIN event.truth.rows :
                event.truth.rows[m].hit_id = hit_id
    IN  event.truth.rows[k].particle_id

\* The raw hits of a listed (volume, layer) pair.
ListedRawHits ==
    {row \in Range(event.hits.rows) :
        \E i \in DOMAIN Vlids(args.endcaps) :
            Vlids(args.endcaps)[i] = <<row.volume_id, row.layer_id>>}

RawLayer(row) ==
    (CHOOSE i \in DOMAIN Vlids(args.endcaps) :
        Vlids(args.endcaps)[i] = <<row.volume_id, row.layer_id>>) - 1

RawRadius(row) == Sqrt(row.x * row.x + row.y * row.y)

\* The particles that pass the particle selection of the call.
SelectedParticles ==
    {prt.particle_id : prt \in
        {q \in Range(event.particles.rows) : q.pt > args.pt_min}}

\* The raw hits of a selected particle in a layer.
RawGroup(p, l) ==
    {row \in ListedRawHits : TruthParticle(row.hit_id) = p /\ RawLayer(row) = l}

RawNoise == {row \in ListedRawHits : TruthParticle(row.hit_id) = 0}

\* The returned rows that are one of a set of raw hits.
ReturnedOf(G) ==
    {k \in DOMAIN selected[1].hits.rows :
        \E row \in G : row.hit_id = selected[1].hits.rows[k].hit_id}

\* C8: with remove_duplicates set, the returned hits hold, for every
\* particle of the selection and every layer it has a hit in, exactly one
\* hit of that (particle, layer) group, and it is one of minimal r in the
\* group; the noise hits are all kept (or all removed, with remove_noise).
C8_OneMinimalHitPerGroup ==
    (pc \in {"selected", "selected_again"} /\ args.remove_duplicates) =>
        /\ \A p \in SelectedParticles : \A l \in 0..(Len(Vlids(args.endcaps)) - 1) :
              RawGroup(p, l) # {} =>
                 /\ Cardinality(ReturnedOf(RawGroup(p, l))) = 1
                 /\ \A k \in ReturnedOf(RawGroup(p, l)) :
                       /\ selected[1].hits.rows[k].layer = l
                       /\ \A row \in RawGroup(p, l) :
                             selected[1].hits.rows[k].r <= RawRadius(row)
        /\ Cardinality(ReturnedOf(RawNoise)) =
              IF args.remove_noise THEN 0 ELSE Cardinality(RawNoise)

\* A particle has two hits in a layer, the second of them at the smaller
\* radius, and two noise hits of one layer are returned.
C8_Witness ==
    /\ pc = "selected"
    /\ args.remove_duplicates
    /\ \E p \in SelectedParticles : \E a, b \in RawGroup(p, 0) :
          a.hit_id < b.hit_id /\ RawRadius(b) < RawRadius(a)
    /\ \E a, b \in RawNoise :
          /\ a.hit_id # b.hit_id
          /\ RawLayer(a) = RawLayer(b)
          /\ ReturnedOf({a, b}) # {}
          /\ Cardinality(ReturnedOf({a, b})) = 2

\* C9: select_hits applied a second time, with the same flags, to the hits
\* and particles it has returned, returns what it returned the first time.
C9_Idempotent ==
    pc = "selected_again" => selected[2] = selected[1]

\* C10: select_hits raises no error, whatever the event: the hits of a
\* (volume, layer) pair that is not listed are left out, and an event that
\* is empty or that has no hit in a listed pair still gives the two tables.
C10_NoErrorRaised ==
    selected # <<>> =>
        /\ selected[1].raised = "none"
        /\ \A k \in DOMAIN selected[1].hits.rows :
              \E row \in ListedRawHits :
                  row.hit_id = selected[1].hits.rows[k].hit_id


---------------------------------------------------------------------------
(* Further claims about the edge constructor (checked under SpecGraph).    *)

\* C11: construct_graph returns a graph for every hit set of a sector, the
\* empty one and one with an empty declared layer included: x has one row
\* per hit, the edge arrays have one entry per edge, and without an edge
\* they are all empty and n_incorrect is 0.
C11_GraphForEveryHitSet ==
    pc = "graph_done" =>
        /\ Len(graph.x) = Len(hits)
        /\ \A k \in DOMAIN hits : graph.x[k] = <<hits[k].r, hits[k].phi, hits[k].z>>
        /\ Len(graph.edge_index) = Len(graph.y)
        /\ Len(graph.edge_attr) = Len(graph.y)
        /\ Len(graph.y) = 0 =>
              /\ graph.edge_index = <<>>
              /\ graph.edge_attr = <<>>
              /\ graph.y = <<>>
              /\ graph.n_incorrect = 0

\* A sector with noise, with a populated layer pair whose candidates are
\* all cut, and with a declared layer that has no hit.
C11_Witness ==
    /\ pc = "graph_done"
    /\ \E k \in DOMAIN hits : hits[k].particle_id = 0
    /\ AnyPairPopulated(hits, args.layer_pairs)
    /\ \E n \in DOMAIN args.layer_pairs :
          LayerGroup(hits, args.layer_pairs[n][2]) = <<>>
    /\ Len(graph.y) = 0

\* The other cases of C11: no hit at all, and hits of which no declared
\* layer pair has both layers.
C11_EmptySector == pc = "graph_done" /\ hits = <<>>
C11_NoPairPopulated ==
    pc = "graph_done" /\ hits # <<>> /\ ~AnyPairPopulated(hits, args.layer_pairs)


---------------------------------------------------------------------------
(* Claims about the particle truth (checked under Spec).                   *)

\* The layers particle p has a hit in.
LayersOf(p) == {hits[k].layer : k \in {m \in DOMAIN hits : hits[m].particle_id = p}}

\* Two layers of particle p with no layer of p between them.
Consecutive(p, a, b) ==
    /\ a \in LayersOf(p) /\ b \in LayersOf(p) /\ a < b
    /\ ~\E c \in LayersOf(p) : a < c /\ c < b

\* C12: a particle other than noise is reconstructable exactly when it has
\* hits in two layers or more and every two consecutive layers of it are a
\* valid layer pair; with one layer it is not reconstructable and has no
\* track segment; noise (0) has 0 for reconstructable, pt, eta and
\* n_track_segs.
C12_Reconstructable ==
    pc # "particle_properties" =>
        \A p \in ParticleIds(hits) :
            IF p = 0
            THEN /\ particle_properties.reconstructable[p] = FALSE
                 /\ particle_properties.pt[p] = 0
                 /\ particle_properties.eta[p][1] = 0
                 /\ particle_properties.n_track_segs[p] = 0
            ELSE /\ particle_properties.reconstructable[p] <=>
                      /\ Cardinality(LayersOf(p)) >= 2
                      /\ \A a, b \in LayersOf(p) :
                            Consecutive(p, a, b) =>
                                <<a, b>> \in Range(args.layer_pairs)
                 /\ Cardinality(LayersOf(p)) = 1 =>
                      /\ ~particle_properties.reconstructable[p]
                      /\ particle_properties.n_track_segs[p] = 0

\* An event with noise, a reconstructable particle and a particle that
\* skips a layer.
C12_Witness ==
    /\ pc = "sectors"
    /\ 0 \in ParticleIds(hits)
    /\ \E p \in ParticleIds(hits) : particle_properties.reconstructable[p]
    /\ \E p \in ParticleIds(hits) :
          /\ Cardinality(LayersOf(p)) >= 2
          /\ ~particle_properties.reconstructable[p]

\* The other case of C12: a particle with two hits in one layer, next to a
\* reconstructable one.
C12_SingleLayer ==
    /\ pc = "sectors"
    /\ \E p \in ParticleIds(hits) : particle_properties.reconstructable[p]
    /\ \E p \in ParticleIds(hits) :
          /\ p # 0 /\ Cardinality(LayersOf(p)) = 1
          /\ Len(ParticleHits(hits, p)) = 2


---------------------------------------------------------------------------
(* Claims that relate the graphs of an event with its particle truth       *)
(* (checked under Spec).                                                   *)

\* The hits of the sector of graph i.
GraphHits(i) == hits_sectors[sectors[i].s]

\* The label-1 edges of graph i that belong to particle p.
TrueEdgesOf(i, p) ==
    {k \in DOMAIN sectors[i].y :
        /\ sectors[i].y[k] = 1
        /\ GraphHits(i)[sectors[i].edge_index[k][1] + 1].particle_id = p}

\* A ratio that is at most 1.
AtMostOne(ratio) == ratio.num * ratio.den <= ratio.den * ratio.den

\* No efficiency of the summary, of a sector or of the event, is above 1.
EfficiencyAtMostOne ==
    pc = "done" =>
        /\ AtMostOne(summary_stats.efficiency)
        /\ \A i \in DOMAIN summary_stats.sector_stats :
              AtMostOne(summary_stats.sector_stats[i].efficiency)

\* The first part of C13 alone.
TrueEdgesBounded ==
    pc \in {"summary", "done"} =>
        \A i \in DOMAIN sectors : \A p \in ParticleIds(GraphHits(i)) :
            Cardinality(TrueEdgesOf(i, p))
               <= particle_properties.n_track_segs_per_s[sectors[i].s][p]

\* C13: the label-1 edges a graph has for a particle are never more than
\* the n_track_segs of that particle over the hits of the graph, and no
\* efficiency is above 1.
C13_TrueEdgesWithinTrackSegs == TrueEdgesBounded /\ EfficiencyAtMostOne

---------------------------------------------------------------------------
(* The transition layer pairs of the two uses (checked under SpecGraph).   *)

\* Every pair of hits of the catalogue, as select_edges may be given.
ProbePairs ==
    LET all == Pick(GraphCatalogue, DOMAIN GraphCatalogue)
    IN  Range(HitPairs(all, all))

\* The veto of select_edges applies to a layer pair when there are hit
\* pairs that it rejects in that layer pair.
VetoApplies(lp) ==
    \E pr \in ProbePairs : intersected_layer(pr, lp[1], lp[2])

\* The layer pairs select_edges was called with: the declared ones with
\* hits in both layers.
PopulatedPairs ==
    {lp \in Range(args.layer_pairs) :
        LayerGroup(hits, lp[1]) # <<>> /\ LayerGroup(hits, lp[2]) # <<>>}

\* C14: a layer pair is one of the transition pairs of check_truth_labels
\* exactly when the veto of select_edges applies to it.
C14_SameTransitionPairs ==
    pc = "graph_done" =>
        \A lp \in PopulatedPairs : lp \in barrel_to_endcaps <=> VetoApplies(lp)

\* One direction of C14 alone: the veto applies to transition pairs only.
VetoOnTransitionPairsOnly ==
    pc = "graph_done" =>
        \A lp \in PopulatedPairs : VetoApplies(lp) => lp \in barrel_to_endcaps


---------------------------------------------------------------------------
(* Claims about the counts of the summary (checked under Spec).            *)

\* A ratio between 0 and 1.
InUnitInterval(ratio) ==
    /\ ratio.num * ratio.den >= 0
    /\ ratio.num * ratio.den <= ratio.den * ratio.den

\* C15: n_true = sum(y) - n_incorrect of a graph is never negative and never
\* above the number of edges of the graph, so every purity is in [0, 1].
C15_TrueCountWithinEdges ==
    /\ pc \in {"summary", "done"} =>
          \A i \in DOMAIN sectors :
              /\ SumY(sectors[i]) - sectors[i].n_incorrect >= 0
              /\ SumY(sectors[i]) - sectors[i].n_incorrect <= Len(sectors[i].y)
    /\ pc = "done" =>
          /\ InUnitInterval(summary_stats.purity)
          /\ \A i \in DOMAIN summary_stats.sector_stats :
                /\ InUnitInterval(summary_stats.sector_stats[i].purity)
                /\ summary_stats.sector_stats[i].purity =
                      div(SumY(sectors[i]) - sectors[i].n_incorrect,
                          Len(sectors[i].y))

\* A summary with a graph that has a correction and a false edge.
C15_Witness ==
    /\ pc = "done"
    /\ \E i \in DOMAIN sectors :
          /\ sectors[i].n_incorrect > 0
          /\ \E k \in DOMAIN sectors[i].y : sectors[i].y[k] = 0

\* The sum over the sectors of their expected track segments.
ExpectedInSectors ==
    LET segs == [i \in DOMAIN sectors |-> ExpectedInSector(i)]
    IN  SumOver(segs, DOMAIN sectors)

\* C16: the expected track segments of the sectors never sum to more than
\* those of the event, so boundary_fraction is in [0, 1].
C16_SectoredWithinTotal ==
    pc = "done" =>
        /\ ExpectedInSectors <= ExpectedInEvent
        /\ InUnitInterval(summary_stats.boundary_fraction)

\* The second part of C16 alone.
BoundaryFractionInUnitInterval ==
    pc = "done" => InUnitInterval(summary_stats.boundary_fraction)

\* The hits of particle p in table h, by row label and layer.
ParticleRows(h, p) ==
    {<<h[k].index, h[k].layer>> : k \in {m \in DOMAIN h : h[m].particle_id = p}}

====
